---- MODULE Spec2Model ----
(***************************************************************************)
(* The event-to-music mapping pipeline of api-sonification:                *)
(*   - APISynthesizer (src/synthesizer.py): status/response-time/path/     *)
(*     bytes mapping and the note sequencer (add_event, get_stats);        *)
(*   - AudioSynthesizer (src/apisonify/audio.py): the frequency mapping    *)
(*     and the ADSR envelope (apply_adsr).                                 *)
(*                                                                         *)
(* Number representations.                                                 *)
(*   beats / seconds held by the sequencer : integer quarters (x4), so     *)
(*       0.25 -> 1, 0.5 -> 2, 1.0 -> 4; every value the code produces is a *)
(*       multiple of 0.25 and exact in binary floating point.              *)
(*   response_time : integer milliseconds.  APISynthesizer reads the       *)
(*       Python float rt/1000 (seconds), AudioSynthesizer the float rt     *)
(*       (milliseconds).                                                   *)
(*   frequencies   : integer centi-hertz (523.25 Hz -> 52325).             *)
(*   ADSR fractions and the sustain level : integer tenths (0.7 -> 7).     *)
(*   envelope gains and output samples : exact rationals <<num, den>>.     *)
(***************************************************************************)
EXTENDS Integers, Sequences, FiniteSets, TLC

VARIABLES
    synth,      \* the APISynthesizer object: notes, current_time, event_count, base_tempo
    hashSeed,   \* the str hash the synthesizer's process got from its hash seed
    fed,        \* the events passed to add_event so far, in call order
    raised,     \* what the last add_event call raised ("none" when it returned)
    stats,      \* <<>> or <<the dict the last get_stats call returned>>
    replay,     \* <<>> or <<a second run of the same events in another process>>
    lastOp,     \* the operation that produced the current state
    probe,      \* input of a pure mapping function under test
    mapped,     \* <<>> or <<its result>>
    adsrIn,     \* arguments of AudioSynthesizer.apply_adsr
    adsrOut     \* <<>> or <<its outcome>>

vars == <<synth, hashSeed, fed, raised, stats, replay, lastOp,
          probe, mapped, adsrIn, adsrOut>>

seqVars == <<synth, hashSeed, fed, raised, stats, replay, lastOp>>
mapVars == <<probe, mapped>>
adsrVars == <<adsrIn, adsrOut>>

(***************************************************************************)
(* Bounds of the model.                                                    *)
(***************************************************************************)
MaxCalls == 3          \* add_event calls in one run
MaxStatus == 620       \* status probes range over -MaxStatus .. MaxStatus
MaxResponseMs == 6000  \* response-time probes range over 0 .. MaxResponseMs
MaxLen == 10           \* longest waveform buffer given to apply_adsr

Max(a, b) == IF a >= b THEN a ELSE b
Min(a, b) == IF a <= b THEN a ELSE b
Abs(a) == IF a < 0 THEN 0 - a ELSE a

(***************************************************************************)
(* APISynthesizer: tables and track assignments.                           *)
(***************************************************************************)
SCALES ==
    [major      |-> <<0, 2, 4, 5, 7, 9, 11>>,
     minor      |-> <<0, 2, 3, 5, 7, 8, 10>>,
     diminished |-> <<0, 2, 3, 5, 6, 8, 9>>,
     chromatic  |-> <<0, 1, 2, 3, 4, 5, 6>>]

MELODY_TRACK == 0
HARMONY_TRACK == 1
BASS_TRACK == 2
DRUMS_TRACK == 3

\* APISynthesizer.__init__: four tracks, clock at 0, no events.
NewSynthesizer(base_tempo) ==
    [base_tempo   |-> base_tempo,
     notes        |-> <<>>,
     current_time |-> 0,
     event_count  |-> 0]

_status_to_track(status) ==
    IF 200 <= status /\ status < 300 THEN MELODY_TRACK
    ELSE IF 300 <= status /\ status < 400 THEN HARMONY_TRACK
    ELSE IF 400 <= status /\ status < 500 THEN BASS_TRACK
    ELSE DRUMS_TRACK

_status_to_scale(status) ==
    IF 200 <= status /\ status < 300 THEN SCALES.major
    ELSE IF 300 <= status /\ status < 400 THEN SCALES.minor
    ELSE IF 400 <= status /\ status < 500 THEN SCALES.diminished
    ELSE SCALES.chromatic

\* Faulty variants of _response_time_to_pitch: the lower clamp forgotten; the sign of
\* the slow offset flipped.
_response_time_to_pitch_unclamped(rt) ==
    LET offset == IF rt < 100 THEN ((100 - rt) \div 10) + 12
                  ELSE IF rt > 1000 THEN 0 - (((rt - 1000) \div 500) * 3)
                  ELSE 0
    IN Min(84, 60 + offset)

_response_time_to_pitch_rising(rt) ==
    LET offset == IF rt < 100 THEN ((100 - rt) \div 10) + 12
                  ELSE IF rt > 1000 THEN ((rt - 1000) \div 500) * 3
                  ELSE 0
    IN Max(36, Min(84, 60 + offset))

\* rt is in milliseconds; the code computes on rt/1000 seconds:
\*   int((0.1 - t) / 0.01) = (100 - rt) \div 10   for 0 < rt < 100,
\*   int((t - 1.0) / 0.5)  = (rt - 1000) \div 500 for rt > 1000
\* (int truncates toward zero; both quotients are non-negative here).
_response_time_to_pitch(rt) ==
    LET base_pitch == 60
        offset == IF rt < 100 THEN ((100 - rt) \div 10) + 12
                  ELSE IF rt > 1000 THEN 0 - (((rt - 1000) \div 500) * 3)
                  ELSE 0
    IN Max(36, Min(84, base_pitch + offset))

(***************************************************************************)
(* Paths are sequences of characters.  path.split('?')[0] is the part      *)
(* before the first '?'.                                                   *)
(***************************************************************************)
RECURSIVE StripQuery(_)
StripQuery(path) ==
    IF path = <<>> \/ Head(path) = "?" THEN <<>>
    ELSE <<Head(path)>> \o StripQuery(Tail(path))

\* The paths (query stripped) the events below carry.
PathBases == { <<"/", "a">> }

\* The str hash of a process is fixed by its hash seed (PYTHONHASHSEED, a
\* fresh random one per process by default).  A process's hash is held as
\* what _path_to_note reads of it: abs(hash(s)) modulo 7 (every scale has 7
\* degrees) for each s of PathBases.  Every residue occurs under some seed
\* (CPython 3.11, siphash13: '/a' gives 4 under seed 0, 5 under seed 1, 6
\* under seed 2, 0 under seed 5, 1 under seed 6, 3 under seed 9, 2 under
\* seed 15).
ProcessHashes == [PathBases -> 0 .. 6]

\* abs(hash(s)) modulo 7 in a process whose hash is h.  hash('') is 0 under
\* every seed; s is '' or one of PathBases.
AbsHash(h, s) == IF s = <<>> THEN 0 ELSE h[s]

_path_to_note(seed, path, scale) ==
    LET path_hash == AbsHash(seed, StripQuery(path))
        scale_degree == scale[(path_hash % Len(scale)) + 1]
        base_pitch == 60
    IN base_pitch + scale_degree

\* add_event, lines 104-111: note length from the payload size.
duration_of(bytes_val) ==
    IF bytes_val < 1000 THEN 1          \* 0.25
    ELSE IF bytes_val < 10000 THEN 2    \* 0.5
    ELSE 4                              \* 1.0

\* add_event, lines 113-121: volume from the status.
velocity_of(status) ==
    IF status < 300 THEN 80
    ELSE IF status < 400 THEN 60
    ELSE IF status < 500 THEN 100
    ELSE 120

\* dict.get(key, default)
Get(event, key, default) == IF key \in DOMAIN event THEN event[key] ELSE default

\* add_event, lines 94-121: the note an event maps to at clock value `now`,
\* or the KeyError of a subscript on a missing key (event['status'],
\* event['path']).  notes holds the note, or nothing when the lookup raised.
MapEvent(seed, event, now) ==
    IF "status" \notin DOMAIN event
    THEN [raised |-> "KeyError", notes |-> <<>>]
    ELSE LET status == event["status"]
             track == _status_to_track(status)
             scale == _status_to_scale(status)
             rt == Get(event, "response_time", 0)
         IN IF ~(rt > 0) /\ "path" \notin DOMAIN event
            THEN [raised |-> "KeyError", notes |-> <<>>]
            ELSE [raised |-> "none",
                  notes  |-> << [track      |-> track,
                                 pitch      |-> IF rt > 0
                                                THEN _response_time_to_pitch(rt)
                                                ELSE _path_to_note(seed, event["path"], scale),
                                 start_time |-> now,
                                 duration   |-> duration_of(Get(event, "bytes", 0)),
                                 velocity   |-> velocity_of(status)] >>]

\* Faulty variant of NextTime: the clock is not advanced.
NextTimeStuck(t) == t

\* add_event, line 128: current_time += 0.5
NextTime(t) == t + 2

\* Faulty variant of add_event: the event is counted before its fields are read.
add_event_counting(self, seed, event) ==
    LET m == MapEvent(seed, event, self.current_time)
    IN IF m.raised # "none"
       THEN [self |-> [self EXCEPT !.event_count = @ + 1], raised |-> m.raised]
       ELSE [self   |-> [self EXCEPT !.notes = @ \o m.notes,
                                     !.current_time = NextTime(@),
                                     !.event_count = @ + 1],
             raised |-> "none"]

\* add_event: a raise leaves the object as it was (midi.addNote and the two
\* increments come after every subscript).
add_event(self, seed, event) ==
    LET m == MapEvent(seed, event, self.current_time)
    IN IF m.raised # "none"
       THEN [self |-> self, raised |-> m.raised]
       ELSE [self   |-> [self EXCEPT !.notes = @ \o m.notes,
                                     !.current_time = NextTime(@),
                                     !.event_count = @ + 1],
             raised |-> "none"]

\* get_stats: duration_seconds = current_time / 2 (quarters: an even count of
\* quarter beats halves exactly).
get_stats(self) ==
    [event_count      |-> self.event_count,
     duration_seconds |-> self.current_time \div 2,
     tempo            |-> self.base_tempo]

\* add_event called once per element of `events`, in order, by a caller that
\* catches what a call raises and goes on with the next event, in a process
\* whose str hash is `seed`.
RECURSIVE RunEvents(_, _, _)
RunEvents(self, seed, events) ==
    IF events = <<>> THEN self
    ELSE RunEvents(add_event(self, seed, Head(events)).self, seed, Tail(events))

(***************************************************************************)
(* The events fed to the sequencer.                                        *)
(***************************************************************************)
Ev1 == [status |-> 200, response_time |-> 50000, bytes |-> 500]
Ev2 == [status |-> 404, response_time |-> 600000, bytes |-> 20000]
Ev3 == [status |-> 500, response_time |-> 1200000, bytes |-> 100]

Events ==
    { Ev1, Ev2, Ev3,
      [status |-> 200, path |-> <<"/", "a">>, bytes |-> 1234, response_time |-> 0],
      [status |-> 301, path |-> <<"/", "a", "?", "x">>, bytes |-> 0],
      [path |-> <<"/", "a">>, bytes |-> 10],
      [status |-> 200, bytes |-> 5000],
      [status |-> 200, response_time |-> -1000] }

Tempos == {120, 140}

\* The events add_event raises KeyError on: event['status'] with no status,
\* or event['path'] with no path when event.get('response_time', 0) > 0 is
\* false (response_time absent, 0 or negative).
Malformed(event) ==
    \/ "status" \notin DOMAIN event
    \/ /\ "path" \notin DOMAIN event
       /\ ~(Get(event, "response_time", 0) > 0)

(***************************************************************************)
(* Specification of the sequencer.                                         *)
(***************************************************************************)
MapIdle == probe = [fn |-> "none", arg |-> 0] /\ mapped = <<>>
AdsrIdle == adsrIn = [length |-> 0] /\ adsrOut = <<>>

Init ==
    /\ \E t \in Tempos : synth = NewSynthesizer(t)
    /\ hashSeed \in ProcessHashes
    /\ fed = <<>>
    /\ raised = "none"
    /\ stats = <<>>
    /\ replay = <<>>
    /\ lastOp = "init"
    /\ MapIdle
    /\ AdsrIdle

AddEvent ==
    /\ Len(fed) < MaxCalls
    /\ replay = <<>>
    /\ \E event \in Events :
          LET r == add_event(synth, hashSeed, event)
          IN /\ synth' = r.self
             /\ raised' = r.raised
             /\ fed' = Append(fed, event)
    /\ lastOp' = "add_event"
    /\ UNCHANGED <<hashSeed, stats, replay, mapVars, adsrVars>>

GetStats ==
    /\ replay = <<>>
    /\ stats' = <<get_stats(synth)>>
    /\ lastOp' = "get_stats"
    /\ UNCHANGED <<synth, hashSeed, fed, raised, replay, mapVars, adsrVars>>

\* The same calls made again on a fresh synthesizer in another process.
Replay ==
    /\ replay = <<>>
    /\ \E seed \in ProcessHashes :
          replay' = <<RunEvents(NewSynthesizer(synth.base_tempo), seed, fed)>>
    /\ lastOp' = "replay"
    /\ UNCHANGED <<synth, hashSeed, fed, raised, stats, mapVars, adsrVars>>

Next == AddEvent \/ GetStats \/ Replay

Spec == Init /\ [][Next]_vars

(***************************************************************************)
(* AudioSynthesizer.response_time_to_pitch: response_ms in milliseconds,   *)
(* the frequency in centi-hertz.                                           *)
(***************************************************************************)
response_time_to_pitch(response_ms) ==
    IF response_ms < 100 THEN 52325        \* 523.25
    ELSE IF response_ms < 500 THEN 26163   \* 261.63
    ELSE 13081                             \* 130.81

(***************************************************************************)
(* Specification of the pure mapping functions: one probe, one application.*)
(***************************************************************************)
Statuses == (0 - MaxStatus) .. MaxStatus

\* every millisecond up to 1.1 s, then every tenth of a second
ResponseTimes == {t \in 0 .. MaxResponseMs : t < 1100 \/ t % 100 = 0}

SeqIdle ==
    /\ synth = NewSynthesizer(120)
    /\ hashSeed = [b \in PathBases |-> 0]
    /\ fed = <<>>
    /\ raised = "none"
    /\ stats = <<>>
    /\ replay = <<>>
    /\ lastOp = "init"

InitMap ==
    /\ SeqIdle
    /\ AdsrIdle
    /\ \/ \E s \in Statuses : probe = [fn |-> "status", arg |-> s]
       \/ \E t \in ResponseTimes : probe = [fn |-> "response_time", arg |-> t]
    /\ mapped = <<>>

\* What add_event derives from the status (lines 94-96 and 113-121).
MapStatus ==
    /\ probe.fn = "status"
    /\ mapped = <<>>
    /\ mapped' = << [track    |-> _status_to_track(probe.arg),
                     scale    |-> _status_to_scale(probe.arg),
                     velocity |-> velocity_of(probe.arg)] >>
    /\ UNCHANGED <<probe, seqVars, adsrVars>>

\* The pitch of one response time in both renderers.
MapResponseTime ==
    /\ probe.fn = "response_time"
    /\ mapped = <<>>
    /\ mapped' = << [pitch |-> _response_time_to_pitch(probe.arg),
                     freq  |-> response_time_to_pitch(probe.arg)] >>
    /\ UNCHANGED <<probe, seqVars, adsrVars>>

NextMap == MapStatus \/ MapResponseTime

SpecMap == InitMap /\ [][NextMap]_vars

(***************************************************************************)
(* Exact rationals <<num, den>>, den > 0, in lowest terms.                 *)
(***************************************************************************)
RECURSIVE Gcd(_, _)
Gcd(a, b) == IF b = 0 THEN a ELSE Gcd(b, a % b)

Rat(n, d) ==
    LET g == Gcd(Abs(n), Abs(d))
        sn == IF d < 0 THEN 0 - n ELSE n
    IN <<sn \div g, Abs(d) \div g>>

RatAdd(x, y) == Rat(x[1] * y[2] + y[1] * x[2], x[2] * y[2])
RatSub(x, y) == Rat(x[1] * y[2] - y[1] * x[2], x[2] * y[2])
RatMul(x, y) == Rat(x[1] * y[1], x[2] * y[2])

(***************************************************************************)
(* numpy, as apply_adsr uses it.                                           *)
(***************************************************************************)
\* np.ones(n)
ones(n) == [i \in 1 .. n |-> <<1, 1>>]

\* np.linspace(start, stop, num): num evenly spaced samples, both ends
\* included; [start] when num is 1, empty when num is 0.
linspace(start, stop, num) ==
    [i \in 1 .. num |->
        IF num = 1 THEN start
        ELSE RatAdd(start, RatMul(Rat(i - 1, num - 1), RatSub(stop, start)))]

\* A slice bound as Python clamps it: negative bounds count from the end.
SliceBound(i, length) ==
    IF i < 0 THEN Max(i + length, 0) ELSE Min(i, length)

\* array[start:stop] = values.  The values must have the slice's shape, or be
\* a single element (broadcast over the slice); numpy raises ValueError
\* ("could not broadcast input array") otherwise.  Indices are 1-based here.
SetSlice(array, start, stop, values) ==
    LET lo == SliceBound(start, Len(array))
        hi == SliceBound(stop, Len(array))
        n  == Max(hi - lo, 0)
    IN IF Len(values) = n
       THEN [raised |-> "none",
             array  |-> [i \in 1 .. Len(array) |->
                            IF lo < i /\ i <= lo + n THEN values[i - lo] ELSE array[i]]]
       ELSE IF Len(values) = 1
       THEN [raised |-> "none",
             array  |-> [i \in 1 .. Len(array) |->
                            IF lo < i /\ i <= lo + n THEN values[1] ELSE array[i]]]
       ELSE [raised |-> "ValueError", array |-> array]

\* The lengths up to 2000 at which the double product 0.7 * length falls just
\* below the whole number 7 * length / 10 (0.7 * 90 is 62.99999999999999).
SevenTenthsShort ==
    {90, 170, 180, 330, 340, 350, 360, 650, 660, 670, 680, 690, 700, 710, 720,
     730, 1290, 1300, 1310, 1320, 1330, 1340, 1350, 1360, 1370, 1380, 1390,
     1400, 1410, 1420, 1430, 1440, 1450, 1460}

\* int(fraction * length) for a fraction given in tenths: the truncated
\* double product, for lengths 0 .. 2000.
SegmentSamples(tenths, length) ==
    ((tenths * length) \div 10)
        - (IF tenths = 7 /\ length \in SevenTenthsShort THEN 1 ELSE 0)

(***************************************************************************)
(* AudioSynthesizer.apply_adsr.  attack, decay, sustain and release are in *)
(* tenths.  The outcome is the returned buffer, or the exception raised.   *)
(***************************************************************************)
apply_adsr(wave, attack, decay, sustain, release) ==
    LET length == Len(wave)
        level == Rat(sustain, 10)
        attack_samples == SegmentSamples(attack, length)
        decay_samples == SegmentSamples(decay, length)
        release_samples == SegmentSamples(release, length)
        \* envelope[:attack_samples] = np.linspace(0, 1, attack_samples)
        e1 == SetSlice(ones(length), 0, attack_samples,
                       linspace(<<0, 1>>, <<1, 1>>, attack_samples))
        \* envelope[attack_samples:attack_samples+decay_samples] = np.linspace(1, sustain, decay_samples)
        e2 == SetSlice(e1.array, attack_samples, attack_samples + decay_samples,
                       linspace(<<1, 1>>, level, decay_samples))
        \* envelope[-release_samples:] = np.linspace(sustain, 0, release_samples)
        e3 == SetSlice(e2.array, 0 - release_samples, length,
                       linspace(level, <<0, 1>>, release_samples))
    IN IF e1.raised # "none" THEN [raised |-> e1.raised, out |-> <<>>]
       ELSE IF e2.raised # "none" THEN [raised |-> e2.raised, out |-> <<>>]
       ELSE IF e3.raised # "none" THEN [raised |-> e3.raised, out |-> <<>>]
       ELSE [raised |-> "none",
             out    |-> [i \in 1 .. length |-> RatMul(wave[i], e3.array[i])]]

(***************************************************************************)
(* Specification of the envelope shaper: one buffer, one call.             *)
(***************************************************************************)
Tenths == 0 .. 10
SustainLevels == {5, 7}
Shapes == {"dc", "ramp"}

\* The buffers tried: a constant 1, and the ramp 0, 1, 2, ...
Wave(shape, length) ==
    [i \in 1 .. length |-> IF shape = "dc" THEN <<1, 1>> ELSE <<i - 1, 1>>]

InitAdsr ==
    /\ SeqIdle
    /\ MapIdle
    /\ adsrIn \in [length : 0 .. MaxLen, attack : Tenths, decay : Tenths,
                   release : Tenths, sustain : SustainLevels, shape : Shapes]
    /\ adsrOut = <<>>

ApplyAdsr ==
    /\ adsrOut = <<>>
    /\ "shape" \in DOMAIN adsrIn
    /\ adsrOut' = << apply_adsr(Wave(adsrIn.shape, adsrIn.length), adsrIn.attack,
                                adsrIn.decay, adsrIn.sustain, adsrIn.release) >>
    /\ UNCHANGED <<adsrIn, seqVars, mapVars>>

NextAdsr == ApplyAdsr

SpecAdsr == InitAdsr /\ [][NextAdsr]_vars

(***************************************************************************)
(* Properties of the sequencer (specification Spec).                       *)
(***************************************************************************)
Notes == synth.notes

StartTimesIncrease ==
    \A i, j \in DOMAIN Notes : i < j => Notes[i].start_time < Notes[j].start_time

\* A step that changes the note sequence appends exactly one note, stamped
\* with the clock value the call started from, and keeps every earlier note.
AppendsAtClock ==
    synth'.notes # synth.notes =>
        /\ Len(synth'.notes) = Len(synth.notes) + 1
        /\ SubSeq(synth'.notes, 1, Len(synth.notes)) = synth.notes
        /\ synth'.notes[Len(synth'.notes)].start_time = synth.current_time

\* C1: over any sequence of add_event calls the notes are appended in call
\* order, each stamped with the clock value just before its call, earlier
\* notes are never changed, and start times are strictly increasing.
C1_AppendOnlyStrictlyIncreasing ==
    [](StartTimesIncrease) /\ [][AppendsAtClock]_vars

C1_Witness ==
    /\ lastOp = "add_event"
    /\ Len(Notes) = 3
    /\ Len(fed) = 3

\* The pitch ranges add_event's comments name: fast responses give the high
\* notes 72..84, responses slower than a second the notes at or below 60.
HighBandPitch(p) == 72 <= p /\ p <= 84
SlowBandPitch(p) == 36 <= p /\ p <= 60

ScenarioFed == fed = <<Ev1, Ev2, Ev3>>

\* The parts of the three-event scenario that do not involve note 1's pitch.
ScenarioRest ==
    /\ Len(Notes) = 3
    /\ Notes[1].track = MELODY_TRACK /\ Notes[1].duration = 1
    /\ Notes[2].track = BASS_TRACK /\ SlowBandPitch(Notes[2].pitch)
    /\ Notes[2].duration = 4
    /\ Notes[3].track = DRUMS_TRACK /\ SlowBandPitch(Notes[3].pitch)
    /\ Notes[3].duration = 1
    /\ synth.event_count = 3
    /\ Notes[1].start_time < Notes[2].start_time
    /\ Notes[2].start_time < Notes[3].start_time

\* C3 as stated: the events {200, 50, 500}, {404, 600, 20000}, {500, 1200, 100}
\* give note 1 success / high-band pitch / short, note 2 client_error /
\* slow-band pitch / long, note 3 server_error / slow-band pitch / short,
\* event_count 3 and strictly increasing start times.
C3_ScenarioAsStated ==
    ScenarioFed => (ScenarioRest /\ HighBandPitch(Notes[1].pitch))

\* C3 amended: add_event reads response_time 50 as 50 seconds, so note 1 gets
\* the lowest slow-band pitch, 36, like notes 2 and 3; the rest is as stated,
\* with start times 0, 0.5 and 1.0.
C3_ScenarioAmended ==
    ScenarioFed =>
        /\ ScenarioRest
        /\ Notes[1].pitch = 36 /\ Notes[2].pitch = 36 /\ Notes[3].pitch = 36
        /\ Notes[1].start_time = 0 /\ Notes[2].start_time = 2
        /\ Notes[3].start_time = 4

C3_Witness == ScenarioFed /\ lastOp = "add_event" /\ Len(Notes) = 3

\* C4: a second fresh synthesizer with the same base_tempo, fed the same
\* events, ends in the same state: same notes (hash-derived pitches
\* included), same current_time, same event_count.
C4_RerunIdentical ==
    replay # <<>> => replay[1] = synth

\* C8: after n successful add_event calls get_stats returns event_count = n,
\* tempo = base_tempo and duration = current_time / (base_tempo / 60), and
\* leaves the synthesizer as it was.
C8_StatsMatchTempo ==
    lastOp = "get_stats" =>
        /\ stats[1].event_count = Len(SelectSeq(fed, LAMBDA e : ~Malformed(e)))
        /\ stats[1].event_count = synth.event_count
        /\ stats[1].tempo = synth.base_tempo
        /\ stats[1].duration_seconds * synth.base_tempo = synth.current_time * 60

\* C9: a call with a malformed event (no status, or no path while
\* response_time is absent or 0; a negative response_time behaves like 0)
\* raises and changes nothing: the synthesizer is always in the state the
\* well-formed events alone produce.
C9_MalformedRejectedCleanly ==
    /\ synth = RunEvents(NewSynthesizer(synth.base_tempo), hashSeed,
                         SelectSeq(fed, LAMBDA e : ~Malformed(e)))
    /\ fed # <<>> => (raised = "KeyError" <=> Malformed(fed[Len(fed)]))

C9_Witness ==
    /\ Len(fed) = 3
    /\ ~Malformed(fed[1]) /\ Malformed(fed[2]) /\ ~Malformed(fed[3])
    /\ Len(Notes) = 2
    /\ synth.event_count = 2

(***************************************************************************)
(* Properties of the mapping functions (specification SpecMap).            *)
(***************************************************************************)
StatusMapped == probe.fn = "status" /\ mapped # <<>>
ResponseMapped == probe.fn = "response_time" /\ mapped # <<>>

\* C2: [200,300) -> melody/major, [300,400) -> harmony/minor, [400,500) ->
\* bass/diminished, [500,600) -> drums/chromatic, and every other integer
\* status gets a default that is not the server-error track or scale.
C2_BandTableTotal ==
    StatusMapped =>
        LET status == probe.arg
            m == mapped[1]
        IN /\ (200 <= status /\ status < 300) =>
                  (m.track = MELODY_TRACK /\ m.scale = SCALES.major)
           /\ (300 <= status /\ status < 400) =>
                  (m.track = HARMONY_TRACK /\ m.scale = SCALES.minor)
           /\ (400 <= status /\ status < 500) =>
                  (m.track = BASS_TRACK /\ m.scale = SCALES.diminished)
           /\ (500 <= status /\ status < 600) =>
                  (m.track = DRUMS_TRACK /\ m.scale = SCALES.chromatic)
           /\ (status < 200 \/ status >= 600) =>
                  (m.track # DRUMS_TRACK /\ m.scale # SCALES.chromatic)

\* C10: for every status in [100,599] velocity, track and scale belong to
\* one category: 80 only with melody/major, 60 only with harmony/minor, 100
\* only with bass/diminished, 120 only with drums/chromatic.
C10_VelocityMatchesCategory ==
    (StatusMapped /\ 100 <= probe.arg /\ probe.arg <= 599) =>
        LET m == mapped[1]
        IN /\ m.velocity \in {60, 80, 100, 120}
           /\ m.velocity = 80 => (m.track = MELODY_TRACK /\ m.scale = SCALES.major)
           /\ m.velocity = 60 => (m.track = HARMONY_TRACK /\ m.scale = SCALES.minor)
           /\ m.velocity = 100 => (m.track = BASS_TRACK /\ m.scale = SCALES.diminished)
           /\ m.velocity = 120 => (m.track = DRUMS_TRACK /\ m.scale = SCALES.chromatic)

\* The three response-time bands of the audio renderer, in milliseconds.
Band(t) == IF t < 100 THEN "fast" ELSE IF t < 500 THEN "medium" ELSE "slow"
BandRank(t) == IF t < 100 THEN 0 ELSE IF t < 500 THEN 1 ELSE 2

\* The bands _response_time_to_pitch distinguishes: below 0.1 s, 0.1 s to
\* 1.0 s inclusive, above 1.0 s.
SymbolicRank(t) == IF t < 100 THEN 0 ELSE IF t <= 1000 THEN 1 ELSE 2

\* The audio half of C7: one frequency per band, fast > medium > slow.
AudioPiecewiseConstant ==
    \A t \in ResponseTimes :
        /\ Band(t) = Band(probe.arg) => response_time_to_pitch(t) = mapped[1].freq
        /\ BandRank(t) < BandRank(probe.arg) => response_time_to_pitch(t) > mapped[1].freq

\* C7 as stated: both renderers are piecewise-constant over the bands
\* t < 100 ms, 100 ms <= t < 500 ms, t >= 500 ms, ordered fast > medium > slow.
C7_SameBandsBothRenderers ==
    ResponseMapped =>
        /\ AudioPiecewiseConstant
        /\ \A t \in ResponseTimes :
              /\ Band(t) = Band(probe.arg) =>
                    _response_time_to_pitch(t) = mapped[1].pitch
              /\ BandRank(t) < BandRank(probe.arg) =>
                    _response_time_to_pitch(t) > mapped[1].pitch

\* C7 amended: the audio renderer is as stated.  The symbolic renderer uses
\* the bands t < 0.1 s, 0.1 s <= t <= 1.0 s, t > 1.0 s; it is constant (60)
\* on the middle band only, never rises with the response time, stays within
\* 36..84, and orders the bands fast > medium >= slow.
C7_Amended ==
    ResponseMapped =>
        /\ AudioPiecewiseConstant
        /\ 36 <= mapped[1].pitch /\ mapped[1].pitch <= 84
        /\ SymbolicRank(probe.arg) = 0 => mapped[1].pitch >= 72
        /\ SymbolicRank(probe.arg) = 1 => mapped[1].pitch = 60
        /\ SymbolicRank(probe.arg) = 2 => mapped[1].pitch <= 60
        /\ \A t \in ResponseTimes :
              t <= probe.arg => _response_time_to_pitch(t) >= mapped[1].pitch

C7_Witness ==
    /\ ResponseMapped
    /\ probe.arg = 2000
    /\ mapped[1].pitch = 54
    /\ mapped[1].freq = 13081

(***************************************************************************)
(* Properties of the envelope shaper (specification SpecAdsr).             *)
(***************************************************************************)
\* C5: apply_adsr returns, without raising, a buffer of the input length for
\* every length >= 0 and all attack, decay, release fractions in [0,1].
C5_SameLengthNeverRaises ==
    adsrOut # <<>> =>
        /\ adsrOut[1].raised = "none"
        /\ Len(adsrOut[1].out) = adsrIn.length

\* C6: with attack + decay + release < 1, every sample of the sustain
\* segment (from attack_samples + decay_samples up to length -
\* release_samples) is wave[i] * sustain.
C6_SustainSegmentAtLevel ==
    (adsrOut # <<>> /\ adsrIn.attack + adsrIn.decay + adsrIn.release < 10
        /\ adsrOut[1].raised = "none") =>
        LET length == adsrIn.length
            first == SegmentSamples(adsrIn.attack, length)
                     + SegmentSamples(adsrIn.decay, length)
            last == length - SegmentSamples(adsrIn.release, length)
            wave == Wave(adsrIn.shape, length)
        IN \A i \in (first + 1) .. last :
              adsrOut[1].out[i] = RatMul(wave[i], Rat(adsrIn.sustain, 10))

====
